---------------------------- MODULE Spec2Model ----------------------------
(***************************************************************************)
(* Model of the aurora inverter client: the stateful frame codec           *)
(* (src/src/lib.rs) and the polling pipeline built on it (src/src/main.rs):*)
(* unfold/and_then request sequence, RateLimitedStream, timeout stream.    *)
(***************************************************************************)
EXTENDS Integers, Sequences, FiniteSets, TLC

VARIABLES
    last_request,   \* AuroraCodec.last_request : Option<Request>
    rd,             \* Framed read buffer (EasyBuf) handed to decode
    wr,             \* Framed write buffer (Vec<u8>) handed to encode
    wire,           \* bytes the device has written, not yet read by the transport
    wireOut,        \* bytes flushed to the device, not yet read by it
    step,           \* the step just taken: its operation, what it saw and returned
    fed,            \* frames the device has put on the wire that decode has not drained
    nSpurious,      \* frames the device has sent without a request
    nFrames,        \* frames the device has sent
    nEnc,           \* number of encode calls
    nDecOk,         \* number of decode calls that returned a Response
    transport,      \* the client dispatch task: "alive" or "failed"
    task,           \* state owned by the polling task (streams, calls, timers)
    emitted,        \* (energy, voltage) pairs the stream has yielded
    lastEmitAt,     \* time the last pair was yielded
    lastGap,        \* time between the last two pairs yielded
    status,         \* the stream as its consumer sees it: "running" or "failed"
    failure,        \* the error the stream ended with
    notified,       \* the polling task has been woken and not yet polled
    uploading,      \* the consumer (fold) is busy with the last item
    now             \* current time

codecVars == <<last_request, rd, wr, wire, wireOut, step, fed,
               nSpurious, nFrames, nEnc, nDecOk>>

codecVarsButOp == <<last_request, rd, wr, wire, wireOut, fed,
                    nSpurious, nFrames, nEnc, nDecOk>>

taskVars == <<transport, task, emitted, lastEmitAt, lastGap, status, failure,
              notified, uploading, now>>

vars == <<codecVars, taskVars>>

---------------------------------------------------------------------------
(* Bounds of the model *)
MaxEncodes == 2
MaxSpurious == 1
MaxTicks == 3
MaxTime == 5
\* configuration values (Config.poll_duration, Config.timeout_mul)
poll_duration == 2
timeout_mul == 2

---------------------------------------------------------------------------
(* Bytes and the CRC-16 (crc16::CCITT_FALSE: poly 0x1021, init 0xFFFF,     *)
(* no reflection, no final xor)                                            *)

Byte == 0 .. 255

CrcInit == 65535
CrcPoly == 4129
ByteBits == 8
FrameLen == 8
PayloadLen == 6
RequestLen == 10

\* bitwise exclusive or of two n-bit numbers
RECURSIVE Xor(_, _, _)
Xor(a, b, n) ==
    IF n = 0 THEN 0
    ELSE ((a + b) % 2) + 2 * Xor(a \div 2, b \div 2, n - 1)

\* x with the bit of weight w inverted
FlipBit(x, w) == IF (x \div w) % 2 = 1 THEN x - w ELSE x + w

\* x xor CrcPoly (0x1021: bits 12, 5 and 0)
XorPoly(x) == FlipBit(FlipBit(FlipBit(x, 1), 32), 4096)

\* one bit of the CRC register shifted out
CrcStep(crc) ==
    IF crc >= 32768 THEN XorPoly((crc * 2) % 65536) ELSE crc * 2

RECURSIVE CrcShift(_, _)
CrcShift(crc, n) ==
    IF n = 0 THEN crc ELSE CrcShift(CrcStep(crc), n - 1)

CrcUpdate(crc, byte) ==
    CrcShift(Xor(crc \div 256, byte, ByteBits) * 256 + (crc % 256), ByteBits)

\* the register is evaluated at every byte (crc \in Nat) before the next
RECURSIVE CrcFold(_, _, _)
CrcFold(crc, data, i) ==
    IF i > Len(data) \/ crc \notin Nat THEN crc
    ELSE CrcFold(CrcUpdate(crc, data[i]), data, i + 1)

\* a CRC that leaves out the last byte of the slice
calculateSkipsLast(data) == CrcFold(CrcInit, SubSeq(data, 1, Len(data) - 1), 1)

calculate(data) == CrcFold(CrcInit, data, 1)

lo(val) == val % 256

hi(val) == (val \div 256) % 256


---------------------------------------------------------------------------
(* Requests and responses (lib.rs: enum MeasurementType, CumulativeDuration,*)
(* Request, Response)                                                      *)

MeasurementType == (1 .. 9) \cup (21 .. 23) \cup (25 .. 63)

CumulativeDuration == {0, 1, 3, 4, 5, 6}

Input1Voltage == 23
Daily == 0

ReqState == [variant |-> "State"]
ReqPartNumber == [variant |-> "PartNumber"]
ReqVersion == [variant |-> "Version"]
ReqMeasure(t, g) == [variant |-> "Measure", type_ |-> t, global |-> g]
ReqSerialNumber == [variant |-> "SerialNumber"]
ReqManufactureDate == [variant |-> "ManufactureDate"]
ReqCumulativeEnergy(d) == [variant |-> "CumulativeEnergy", duration |-> d]

Request ==
    {ReqState, ReqPartNumber, ReqVersion, ReqSerialNumber, ReqManufactureDate}
    \cup {ReqMeasure(t, g) : t \in MeasurementType, g \in Byte}
    \cup {ReqCumulativeEnergy(d) : d \in CumulativeDuration}

\* Option<Request>::None / Option<Response>::None
None == [variant |-> "None"]

\* BigEndian::read_u32 over four bytes (the sampled payloads keep the value
\* below 2^31)
read_u32(b) == ((b[1] * 256 + b[2]) * 256 + b[3]) * 256 + b[4]

\* BigEndian::read_f32 over four bytes: the IEEE-754 single the bits denote,
\* kept as its sign, biased exponent and fraction fields
read_f32(b) ==
    [sign |-> b[1] \div 128,
     exponent |-> (b[1] % 128) * 2 + (b[2] \div 128),
     fraction |-> ((b[2] % 128) * 256 + b[3]) * 256 + b[4]]

---------------------------------------------------------------------------
(* AuroraCodec::encode and AuroraCodec::decode as functions of the codec   *)
(* state and the buffer                                                    *)

CommandCode(msg) ==
    CASE msg.variant = "State" -> 50
      [] msg.variant = "PartNumber" -> 52
      [] msg.variant = "Version" -> 58
      [] msg.variant = "Measure" -> 59
      [] msg.variant = "SerialNumber" -> 63
      [] msg.variant = "ManufactureDate" -> 65
      [] msg.variant = "CumulativeEnergy" -> 78

\* bytes 0..7 of the request frame
EncodeData(addr, msg) ==
    <<addr,
      CommandCode(msg),
      CASE msg.variant = "Measure" -> msg.type_
        [] msg.variant = "CumulativeEnergy" -> msg.duration
        [] OTHER -> 0,
      IF msg.variant = "Measure" THEN msg.global ELSE 0,
      0, 0, 0, 0>>

\* a request frame with the CRC bytes in the other order
EncodeFrameHighFirst(addr, msg) ==
    LET data == EncodeData(addr, msg)
        crc == calculate(data)
    IN data \o <<hi(crc), lo(crc)>>

\* the 10 bytes encode appends to the write buffer
EncodeFrame(addr, msg) ==
    LET data == EncodeData(addr, msg)
        crc == calculate(data)
    IN data \o <<lo(crc), hi(crc)>>

\* an encode that leaves a request that is still pending in the slot
encodeKeepsPending(last, addr, msg, buf) ==
    [last_request |-> IF last # None THEN last ELSE msg,
     buf |-> buf \o EncodeFrame(addr, msg),
     result |-> "Ok"]

\* encode(&mut self, (addr,msg), buf): new codec state and new buffer
encode(last, addr, msg, buf) ==
    [last_request |-> msg,
     buf |-> buf \o EncodeFrame(addr, msg),
     result |-> "Ok"]

\* a Parse with the parameters of the response fixed in the code instead of
\* taken from the pending request
ParseFixedParams(last, data) ==
    CASE last.variant = "State" ->
            [variant |-> "State", global |-> data[1], inverter |-> data[2],
             dc1 |-> data[3], dc2 |-> data[4], alarm |-> data[5]]
      [] last.variant = "PartNumber" ->
            [variant |-> "PartNumber", bytes |-> data]
      [] last.variant = "Version" ->
            [variant |-> "Version", trans |-> data[1], global |-> data[2],
             par1 |-> data[3], par2 |-> data[4], par3 |-> data[5],
             par4 |-> data[6]]
      [] last.variant = "Measure" ->
            [variant |-> "Measure", trans |-> data[1], global |-> data[2],
             val |-> read_f32(SubSeq(data, 3, 6)), type_ |-> Input1Voltage]
      [] last.variant = "SerialNumber" ->
            [variant |-> "SerialNumber", bytes |-> data]
      [] last.variant = "ManufactureDate" ->
            [variant |-> "ManufactureDate", trans |-> data[1],
             global |-> data[2], week |-> SubSeq(data, 3, 4),
             year |-> SubSeq(data, 5, 6)]
      [] last.variant = "CumulativeEnergy" ->
            [variant |-> "CumulativeEnergy", trans |-> data[1],
             global |-> data[2], value |-> read_u32(SubSeq(data, 3, 6)),
             duration |-> Daily]

\* the match on the pending request that builds the Response from data[0..6]
Parse(last, data) ==
    CASE last.variant = "State" ->
            [variant |-> "State", global |-> data[1], inverter |-> data[2],
             dc1 |-> data[3], dc2 |-> data[4], alarm |-> data[5]]
      [] last.variant = "PartNumber" ->
            [variant |-> "PartNumber", bytes |-> data]
      [] last.variant = "Version" ->
            [variant |-> "Version", trans |-> data[1], global |-> data[2],
             par1 |-> data[3], par2 |-> data[4], par3 |-> data[5],
             par4 |-> data[6]]
      [] last.variant = "Measure" ->
            [variant |-> "Measure", trans |-> data[1], global |-> data[2],
             val |-> read_f32(SubSeq(data, 3, 6)), type_ |-> last.type_]
      [] last.variant = "SerialNumber" ->
            [variant |-> "SerialNumber", bytes |-> data]
      [] last.variant = "ManufactureDate" ->
            [variant |-> "ManufactureDate", trans |-> data[1],
             global |-> data[2], week |-> SubSeq(data, 3, 4),
             year |-> SubSeq(data, 5, 6)]
      [] last.variant = "CumulativeEnergy" ->
            [variant |-> "CumulativeEnergy", trans |-> data[1],
             global |-> data[2], value |-> read_u32(SubSeq(data, 3, 6)),
             duration |-> last.duration]

\* a CRC comparison that looks at the high byte only
CrcMatchesHighOnly(packet) ==
    LET crc_calc == calculate(SubSeq(packet, 1, PayloadLen))
    IN packet[FrameLen] = hi(crc_calc)

\* whether the two CRC bytes of an 8-byte packet equal [lo(crc), hi(crc)]
CrcMatches(packet) ==
    LET crc_calc == calculate(SubSeq(packet, 1, PayloadLen))
    IN SubSeq(packet, PayloadLen + 1, FrameLen) = <<lo(crc_calc), hi(crc_calc)>>

\* a decode that reads the pending request without taking it out of the slot
decodeKeepsPending(last, buf) ==
    IF Len(buf) >= FrameLen
    THEN LET packet == SubSeq(buf, 1, FrameLen)
             rest == SubSeq(buf, FrameLen + 1, Len(buf))
         IN IF ~CrcMatches(packet)
            THEN [result |-> "CrcMismatch", resp |-> None, packet |-> packet,
                  last_request |-> last, buf |-> rest]
            ELSE IF last # None
            THEN [result |-> "Ok",
                  resp |-> Parse(last, SubSeq(packet, 1, PayloadLen)),
                  packet |-> packet, last_request |-> last, buf |-> rest]
            ELSE [result |-> "UnexpectedResponse", resp |-> None,
                  packet |-> packet, last_request |-> None, buf |-> rest]
    ELSE [result |-> "NotYet", resp |-> None, packet |-> <<>>,
          last_request |-> last, buf |-> buf]

\* a decode that drops a frame nobody asked for and reports no frame yet
decodeDropsUnexpected(last, buf) ==
    IF Len(buf) >= FrameLen
    THEN LET packet == SubSeq(buf, 1, FrameLen)
             rest == SubSeq(buf, FrameLen + 1, Len(buf))
         IN IF ~CrcMatches(packet)
            THEN [result |-> "CrcMismatch", resp |-> None, packet |-> packet,
                  last_request |-> last, buf |-> rest]
            ELSE IF last # None
            THEN [result |-> "Ok",
                  resp |-> Parse(last, SubSeq(packet, 1, PayloadLen)),
                  packet |-> packet, last_request |-> None, buf |-> rest]
            ELSE [result |-> "NotYet", resp |-> None,
                  packet |-> <<>>, last_request |-> None, buf |-> rest]
    ELSE [result |-> "NotYet", resp |-> None, packet |-> <<>>,
          last_request |-> last, buf |-> buf]

\* a decode that throws a partial frame away instead of leaving it buffered
decodeDrainsPartial(last, buf) ==
    IF Len(buf) >= FrameLen
    THEN LET packet == SubSeq(buf, 1, FrameLen)
             rest == SubSeq(buf, FrameLen + 1, Len(buf))
         IN IF ~CrcMatches(packet)
            THEN [result |-> "CrcMismatch", resp |-> None, packet |-> packet,
                  last_request |-> last, buf |-> rest]
            ELSE IF last # None
            THEN [result |-> "Ok",
                  resp |-> Parse(last, SubSeq(packet, 1, PayloadLen)),
                  packet |-> packet, last_request |-> None, buf |-> rest]
            ELSE [result |-> "UnexpectedResponse", resp |-> None,
                  packet |-> packet, last_request |-> None, buf |-> rest]
    ELSE [result |-> "NotYet", resp |-> None, packet |-> <<>>,
          last_request |-> last, buf |-> <<>>]

\* a decode that empties the whole buffer when it takes a frame
decodeDrainsAll(last, buf) ==
    IF Len(buf) >= FrameLen
    THEN LET packet == SubSeq(buf, 1, FrameLen)
             rest == <<>>
         IN IF ~CrcMatches(packet)
            THEN [result |-> "CrcMismatch", resp |-> None, packet |-> packet,
                  last_request |-> last, buf |-> rest]
            ELSE IF last # None
            THEN [result |-> "Ok",
                  resp |-> Parse(last, SubSeq(packet, 1, PayloadLen)),
                  packet |-> packet, last_request |-> None, buf |-> rest]
            ELSE [result |-> "UnexpectedResponse", resp |-> None,
                  packet |-> packet, last_request |-> None, buf |-> rest]
    ELSE [result |-> "NotYet", resp |-> None, packet |-> <<>>,
          last_request |-> last, buf |-> buf]

\* a decode that takes the pending request out before it checks the CRC
decodeTakesFirst(last, buf) ==
    IF Len(buf) >= FrameLen
    THEN LET packet == SubSeq(buf, 1, FrameLen)
             rest == SubSeq(buf, FrameLen + 1, Len(buf))
         IN IF ~CrcMatches(packet)
            THEN [result |-> "CrcMismatch", resp |-> None, packet |-> packet,
                  last_request |-> None, buf |-> rest]
            ELSE IF last # None
            THEN [result |-> "Ok",
                  resp |-> Parse(last, SubSeq(packet, 1, PayloadLen)),
                  packet |-> packet, last_request |-> None, buf |-> rest]
            ELSE [result |-> "UnexpectedResponse", resp |-> None,
                  packet |-> packet, last_request |-> None, buf |-> rest]
    ELSE [result |-> "NotYet", resp |-> None, packet |-> <<>>,
          last_request |-> last, buf |-> buf]

\* decode(&mut self, buf): result, new codec state and new buffer
decode(last, buf) ==
    IF Len(buf) >= FrameLen
    THEN LET packet == SubSeq(buf, 1, FrameLen)
             rest == SubSeq(buf, FrameLen + 1, Len(buf))
         IN IF ~CrcMatches(packet)
            THEN [result |-> "CrcMismatch", resp |-> None, packet |-> packet,
                  last_request |-> last, buf |-> rest]
            ELSE IF last # None
            THEN [result |-> "Ok",
                  resp |-> Parse(last, SubSeq(packet, 1, PayloadLen)),
                  packet |-> packet, last_request |-> None, buf |-> rest]
            ELSE [result |-> "UnexpectedResponse", resp |-> None,
                  packet |-> packet, last_request |-> None, buf |-> rest]
    ELSE [result |-> "NotYet", resp |-> None, packet |-> <<>>,
          last_request |-> last, buf |-> buf]

\* AuroraProto::bind_transport: the codec a new transport starts with
bind_transport == None


---------------------------------------------------------------------------
(* The polling task (main.rs): client calls, the unfold/filter_map stream, *)
(* RateLimitedStream and the timeout stream, each as a function from the   *)
(* task's state to its new state and the poll's result                     *)

aurora_address == 2
DelaySkips == 2

\* let timeout_duration = poll_duration*cfg.timeout_mul
timeout_duration == poll_duration * timeout_mul

NotReady == [kind |-> "NotReady"]
Ready(item) == [kind |-> "Ready", item |-> item]
Err(e) == [kind |-> "Err", err |-> e]

\* Option<Sleep>: None, or a Sleep with its deadline and whether a poll has
\* registered the task with the timer
NoSleep == [set |-> FALSE, deadline |-> 0, registered |-> FALSE]
NewSleep(t, d) == [set |-> TRUE, deadline |-> t + d, registered |-> FALSE]

\* RateLimitedStream::new(ev_stream, poll_duration, timer, 2) inside
\* timer.timeout_stream(.., timeout_duration), over a fresh client
InitTask ==
    [phase |-> "Idle",          \* position of the unfold future chain
     energy |-> None,           \* energy response captured by the and_then closure
     callLog |-> <<>>,          \* every client.call made, in order
     reqQueue |-> <<>>,         \* requests handed to the dispatch task, not yet encoded
     inFlight |-> 0,            \* requests encoded and awaiting their response
     nDelivered |-> 0,          \* calls whose future has been completed
     callResult |-> None,       \* what the last completed call's future holds
     respLog |-> <<>>,          \* every Response a call has completed with, in order
     lastSent |-> 0,            \* time of the last client.call
     delay_skips |-> DelaySkips,
     sleep |-> NoSleep,
     tsleep |-> NewSleep(0, timeout_duration)]

\* client.call((addr, req)): the request goes to the dispatch task; on a dead
\* transport the returned future fails at once
call(s, addr, req, t, alive) ==
    IF alive
    THEN [s EXCEPT !.callLog = Append(@, [addr |-> addr, req |-> req]),
                   !.reqQueue = Append(@, [addr |-> addr, req |-> req]),
                   !.lastSent = t]
    ELSE [s EXCEPT !.callLog = Append(@, [addr |-> addr, req |-> req]),
                   !.nDelivered = Len(s.callLog) + 1,
                   !.callResult = Err("Io"),
                   !.lastSent = t]

\* Request::CumulativeEnergy(CumulativeDuration::Daily)
EnergyRequest == ReqCumulativeEnergy(Daily)

\* a voltage request that asks for the energy again
VoltageRequestAsEnergy == ReqCumulativeEnergy(Daily)

\* Request::Measure{type_:MeasurementType::Input1Voltage,global:true}
VoltageRequest == ReqMeasure(Input1Voltage, 1)

\* the future of the most recent call has completed
CallReady(s) == s.nDelivered >= Len(s.callLog)

\* the voltage call of a tick has completed with a response: the next poll
\* of the inner stream has a pair to yield
ItemReady(s) ==
    /\ s.phase = "RequestingVoltage"
    /\ CallReady(s)
    /\ s.callResult.kind = "Ready"

\* the call the stream is waiting on has completed with an error
CallFailed(s) ==
    /\ s.phase \in {"RequestingEnergy", "RequestingVoltage"}
    /\ CallReady(s)
    /\ s.callResult.kind = "Err"

\* a filter_map closure with the two patterns of the pair the wrong way round
filter_mapSwapped(res) ==
    IF res[1].variant = "Measure" /\ res[2].variant = "CumulativeEnergy"
    THEN Ready(<<res[2].value, res[1].val>>)
    ELSE None

\* the filter_map closure of energy_voltage_stream
filter_map(res) ==
    IF res[1].variant = "CumulativeEnergy" /\ res[2].variant = "Measure"
    THEN Ready(<<res[1].value, res[2].val>>)
    ELSE None

\* a stream that asks for the voltage without waiting for the energy response
RECURSIVE StreamPollNoWait(_, _, _)
StreamPollNoWait(s, t, alive) ==
    CASE s.phase = "Idle" ->
            StreamPollNoWait([call(s, aurora_address, EnergyRequest, t, alive)
                                 EXCEPT !.phase = "RequestingEnergy"], t, alive)
      [] s.phase = "RequestingEnergy" ->
            IF CallReady(s) /\ s.callResult.kind = "Err"
            THEN [s |-> [s EXCEPT !.phase = "Failed"], res |-> s.callResult]
            ELSE StreamPollNoWait(
                     [call(s, aurora_address, VoltageRequest, t, alive)
                         EXCEPT !.phase = "RequestingVoltage",
                                !.energy = IF CallReady(s)
                                           THEN s.callResult.item ELSE None],
                     t, alive)
      [] s.phase = "RequestingVoltage" ->
            IF ~CallReady(s) THEN [s |-> s, res |-> NotReady]
            ELSE IF s.callResult.kind = "Err"
            THEN [s |-> [s EXCEPT !.phase = "Failed"], res |-> s.callResult]
            ELSE LET out == filter_map(<<s.energy, s.callResult.item>>)
                     s1 == [s EXCEPT !.phase = "Idle", !.energy = None]
                 IN IF out # None THEN [s |-> s1, res |-> out]
                    ELSE StreamPollNoWait(s1, t, alive)
      [] OTHER -> [s |-> s, res |-> Err("Polled after failure")]

\* poll of unfold((addr,client), unfold_energy_voltage_stream).filter_map(..)
RECURSIVE StreamPoll(_, _, _)
StreamPoll(s, t, alive) ==
    CASE s.phase = "Idle" ->
            StreamPoll([call(s, aurora_address, EnergyRequest, t, alive)
                            EXCEPT !.phase = "RequestingEnergy"], t, alive)
      [] s.phase = "RequestingEnergy" ->
            IF ~CallReady(s) THEN [s |-> s, res |-> NotReady]
            ELSE IF s.callResult.kind = "Err"
            THEN [s |-> [s EXCEPT !.phase = "Failed"], res |-> s.callResult]
            ELSE StreamPoll([call(s, aurora_address, VoltageRequest, t, alive)
                                EXCEPT !.phase = "RequestingVoltage",
                                       !.energy = s.callResult.item], t, alive)
      [] s.phase = "RequestingVoltage" ->
            IF ~CallReady(s) THEN [s |-> s, res |-> NotReady]
            ELSE IF s.callResult.kind = "Err"
            THEN [s |-> [s EXCEPT !.phase = "Failed"], res |-> s.callResult]
            ELSE LET out == filter_map(<<s.energy, s.callResult.item>>)
                     s1 == [s EXCEPT !.phase = "Idle", !.energy = None]
                 IN IF out # None THEN [s |-> s1, res |-> out]
                    ELSE StreamPoll(s1, t, alive)
      [] OTHER -> [s |-> s, res |-> Err("Polled after failure")]

\* Sleep::poll at time t: Ready once the deadline has passed
SleepReady(sl, t) == sl.set /\ t >= sl.deadline

\* the tail of RateLimitedStream::poll: make the sleep if there is none
RateLimitedTail(s, t) ==
    [s |-> IF ~s.sleep.set
           THEN [s EXCEPT !.sleep = NewSleep(t, poll_duration)]
           ELSE s,
     res |-> NotReady]

\* a RateLimitedStream that never counts down its skips
RateLimitedPollKeepsSkips(s, t, alive) ==
    LET r1 == IF s.delay_skips > 0 THEN StreamPoll(s, t, alive)
              ELSE [s |-> s, res |-> NotReady]
    IN IF s.delay_skips > 0 /\ r1.res.kind = "Err" THEN r1
       ELSE IF s.delay_skips > 0 /\ r1.res.kind = "Ready"
       THEN [s |-> r1.s, res |-> r1.res]
       ELSE IF SleepReady(r1.s.sleep, t)
       THEN LET r2 == StreamPoll(r1.s, t, alive)
            IN IF r2.res.kind = "Err" THEN r2
               ELSE IF r2.res.kind = "Ready"
               THEN [s |-> [r2.s EXCEPT !.sleep = NewSleep(t, poll_duration)],
                     res |-> r2.res]
               ELSE RateLimitedTail(r2.s, t)
       ELSE RateLimitedTail(
                IF r1.s.sleep.set
                THEN [r1.s EXCEPT !.sleep.registered = TRUE]
                ELSE r1.s, t)

\* a RateLimitedStream that treats an error of the inner stream as not ready
RateLimitedPollSwallowsErr(s, t, alive) ==
    LET r1 == IF s.delay_skips > 0 THEN StreamPoll(s, t, alive)
              ELSE [s |-> s, res |-> NotReady]
    IN IF s.delay_skips > 0 /\ r1.res.kind = "Ready"
       THEN [s |-> [r1.s EXCEPT !.delay_skips = @ - 1], res |-> r1.res]
       ELSE IF SleepReady(r1.s.sleep, t)
       THEN LET r2 == StreamPoll(r1.s, t, alive)
            IN IF r2.res.kind = "Ready"
               THEN [s |-> [r2.s EXCEPT !.sleep = NewSleep(t, poll_duration)],
                     res |-> r2.res]
               ELSE RateLimitedTail(r2.s, t)
       ELSE RateLimitedTail(
                IF r1.s.sleep.set
                THEN [r1.s EXCEPT !.sleep.registered = TRUE]
                ELSE r1.s, t)

\* RateLimitedStream::poll
RateLimitedPoll(s, t, alive) ==
    LET r1 == IF s.delay_skips > 0 THEN StreamPoll(s, t, alive)
              ELSE [s |-> s, res |-> NotReady]
    IN IF s.delay_skips > 0 /\ r1.res.kind = "Err" THEN r1
       ELSE IF s.delay_skips > 0 /\ r1.res.kind = "Ready"
       THEN [s |-> [r1.s EXCEPT !.delay_skips = @ - 1], res |-> r1.res]
       ELSE IF SleepReady(r1.s.sleep, t)
       THEN LET r2 == StreamPoll(r1.s, t, alive)
            IN IF r2.res.kind = "Err" THEN r2
               ELSE IF r2.res.kind = "Ready"
               THEN [s |-> [r2.s EXCEPT !.sleep = NewSleep(t, poll_duration)],
                     res |-> r2.res]
               ELSE RateLimitedTail(r2.s, t)
       ELSE RateLimitedTail(
                IF r1.s.sleep.set
                THEN [r1.s EXCEPT !.sleep.registered = TRUE]
                ELSE r1.s, t)

\* a timeout stream that never looks at its sleep
TimeoutPollNoTimer(s, t, alive) ==
    LET r == RateLimitedPoll(s, t, alive)
    IN IF r.res.kind = "Ready"
       THEN [s |-> [r.s EXCEPT !.tsleep = NewSleep(t, timeout_duration)],
             res |-> r.res]
       ELSE IF r.res.kind = "Err" THEN r
       ELSE [s |-> r.s, res |-> NotReady]

\* poll of timer.timeout_stream(ev_stream, timeout_duration)
TimeoutPoll(s, t, alive) ==
    LET r == RateLimitedPoll(s, t, alive)
    IN IF r.res.kind = "Ready"
       THEN [s |-> [r.s EXCEPT !.tsleep = NewSleep(t, timeout_duration)],
             res |-> r.res]
       ELSE IF r.res.kind = "Err" THEN r
       ELSE IF SleepReady(r.s.tsleep, t)
       THEN [s |-> r.s, res |-> Err("Timeout")]
       ELSE [s |-> [r.s EXCEPT !.tsleep.registered = TRUE], res |-> NotReady]


---------------------------------------------------------------------------
(* The device at the far end of the byte stream *)

\* six payload bytes a device may answer with
Payloads == { <<6, 6, 65, 32, 0, 0>> }

\* the payload of the n-th frame of a device whose readings change with
\* every frame
ReplyPayload(n) == <<6, 6, 0, 0, 1, n % 256>>

\* an 8-byte response frame: payload and its CRC, low byte first; a frame
\* damaged in transit carries a low CRC byte with one bit flipped
MakeFrame(p, intact) ==
    LET crc == calculate(p)
    IN p \o <<IF intact THEN lo(crc) ELSE Xor(lo(crc), 1, ByteBits), hi(crc)>>

ResponseFrames == { MakeFrame(p, ok) : p \in Payloads, ok \in BOOLEAN }

\* how many bytes one read of the socket may return
ReadSizes == {3, 8}

\* requests the codec-level specification encodes
SampleRequests ==
    { ReqState, ReqMeasure(Input1Voltage, 1), ReqCumulativeEnergy(Daily) }

---------------------------------------------------------------------------
(* Initial state: a transport just bound, the stream just built *)

Init ==
    /\ last_request = bind_transport
    /\ rd = <<>>
    /\ wr = <<>>
    /\ wire = <<>>
    /\ wireOut = <<>>
    /\ step = [op |-> "init"]
    /\ fed = <<>>
    /\ nSpurious = 0
    /\ nFrames = 0
    /\ nEnc = 0
    /\ nDecOk = 0
    /\ transport = "alive"
    /\ task = InitTask
    /\ emitted = <<>>
    /\ lastEmitAt = 0
    /\ lastGap = 0
    /\ status = "running"
    /\ failure = "none"
    /\ notified = TRUE
    /\ uploading = FALSE
    /\ now = 0

---------------------------------------------------------------------------
(* Actions of the transport and the device *)

\* the connection is open while the program runs and its transport lives
Connected == status = "running" /\ transport = "alive"

\* Framed::poll_complete: the write buffer goes out to the device
Flush ==
    /\ Connected
    /\ wr # <<>>
    /\ wireOut' = wireOut \o wr
    /\ wr' = <<>>
    /\ step' = [op |-> "flush"]
    /\ UNCHANGED <<last_request, rd, wire, fed, nSpurious, nFrames,
                   nEnc, nDecOk, taskVars>>

\* the device reads one request frame and answers with one response frame
DeviceRespond(frame) ==
    /\ Connected
    /\ Len(wireOut) >= RequestLen
    /\ wireOut' = SubSeq(wireOut, RequestLen + 1, Len(wireOut))
    /\ wire' = wire \o frame
    /\ fed' = Append(fed, frame)
    /\ nFrames' = nFrames + 1
    /\ step' = [op |-> "respond"]
    /\ UNCHANGED <<last_request, rd, wr, nSpurious, nEnc, nDecOk,
                   taskVars>>

\* the device sends a frame nobody asked for
DeviceSpurious(frame) ==
    /\ Connected
    /\ nSpurious < MaxSpurious
    /\ nSpurious' = nSpurious + 1
    /\ wire' = wire \o frame
    /\ fed' = Append(fed, frame)
    /\ nFrames' = nFrames + 1
    /\ step' = [op |-> "spurious"]
    /\ UNCHANGED <<last_request, rd, wr, wireOut, nEnc, nDecOk,
                   taskVars>>

\* the first k bytes of a sequence, or all of it when it is shorter
Take(q, k) == SubSeq(q, 1, IF k < Len(q) THEN k ELSE Len(q))

\* a sequence without its first k bytes
Drop(q, k) == SubSeq(q, k + 1, Len(q))

\* Framed::poll reads up to k of the bytes that have arrived into the read
\* buffer
TransportRead(k) ==
    /\ Connected
    /\ wire # <<>>
    /\ rd' = rd \o Take(wire, k)
    /\ wire' = Drop(wire, k)
    /\ step' = [op |-> "read"]
    /\ UNCHANGED <<last_request, wr, wireOut, fed, nSpurious,
                   nFrames, nEnc, nDecOk, taskVars>>

\* what one decode call does to the codec, the read buffer and the history
DecodeEffect(d, input) ==
    /\ last_request' = d.last_request
    /\ rd' = d.buf
    /\ step' = [op |-> "decode", result |-> d.result, resp |-> d.resp,
                packet |-> d.packet, pending |-> last_request, input |-> input,
                sent |-> IF fed = <<>> THEN <<>> ELSE Head(fed),
                afterMismatch |-> step.op = "decode" /\ step.result = "CrcMismatch"]
    /\ fed' = IF d.result = "NotYet" \/ fed = <<>> THEN fed ELSE Tail(fed)
    /\ nDecOk' = IF d.result = "Ok" THEN nDecOk + 1 ELSE nDecOk

---------------------------------------------------------------------------
(* Codec-level specification: encode and decode called in any order *)

CodecEncode(addr, msg) ==
    /\ nEnc < MaxEncodes
    /\ LET e == encode(last_request, addr, msg, wr)
       IN /\ last_request' = e.last_request
          /\ wr' = e.buf
    /\ nEnc' = nEnc + 1
    /\ step' = [op |-> "encode", pending |-> last_request,
                addr |-> addr, msg |-> msg,
                result |-> encode(last_request, addr, msg, wr).result,
                out |-> Drop(encode(last_request, addr, msg, wr).buf, Len(wr))]
    /\ UNCHANGED <<rd, wire, wireOut, fed, nSpurious, nFrames,
                   nDecOk, taskVars>>

CodecDecode ==
    /\ DecodeEffect(decode(last_request, rd), rd)
    /\ UNCHANGED <<wr, wire, wireOut, nSpurious, nFrames, nEnc, taskVars>>

CodecNext ==
    \/ \E msg \in SampleRequests : CodecEncode(aurora_address, msg)
    \/ CodecDecode
    \/ Flush
    \/ \E f \in ResponseFrames : DeviceRespond(f)
    \/ \E f \in ResponseFrames : DeviceSpurious(f)
    \/ \E k \in ReadSizes : TransportRead(k)

CodecSpec == Init /\ [][CodecNext]_vars

---------------------------------------------------------------------------
(* Frame-level specification: one encode of any sampled address and        *)
(* request, and one frame on the wire, intact or damaged, read and decoded *)

\* addresses and requests the frame-level specification encodes
AddressSamples == {0, aurora_address, 255}

RequestSamples ==
    { ReqState, ReqPartNumber, ReqVersion, ReqSerialNumber, ReqManufactureDate,
      ReqMeasure(1, 0), ReqMeasure(Input1Voltage, 1), ReqMeasure(63, 255),
      ReqCumulativeEnergy(Daily), ReqCumulativeEnergy(6) }

\* payloads of the frames on the wire
PayloadSamples ==
    { <<6, 6, 65, 32, 0, 0>>, <<255, 255, 127, 255, 0, 0>>, <<0, 51, 2, 5, 1, 0>> }

\* 2^n
RECURSIVE Pow2(_)
Pow2(n) == IF n = 0 THEN 1 ELSE 2 * Pow2(n - 1)

\* a byte sequence with bit b inverted, bits counted from the low bit of
\* the first byte
FlipFrameBit(bytes, b) ==
    [bytes EXCEPT ![(b \div ByteBits) + 1] = FlipBit(@, Pow2(b % ByteBits))]

\* frames as the transport may deliver them: well formed, with the CRC
\* damaged, or with one payload bit inverted in transit
FrameSamples ==
    { MakeFrame(p, ok) : p \in PayloadSamples, ok \in BOOLEAN }
    \cup { FlipFrameBit(MakeFrame(p, TRUE), b) :
               p \in PayloadSamples, b \in 0 .. (PayloadLen * ByteBits - 1) }

\* a transport just bound, with one frame from the device on its way
FrameInit ==
    \E f \in FrameSamples :
        /\ last_request = bind_transport
        /\ rd = <<>>
        /\ wr = <<>>
        /\ wire = f
        /\ wireOut = <<>>
        /\ step = [op |-> "init"]
        /\ fed = <<f>>
        /\ nSpurious = 1
        /\ nFrames = 1
        /\ nEnc = 0
        /\ nDecOk = 0
        /\ transport = "alive"
        /\ task = InitTask
        /\ emitted = <<>>
        /\ lastEmitAt = 0
        /\ lastGap = 0
        /\ status = "running"
        /\ failure = "none"
        /\ notified = TRUE
        /\ uploading = FALSE
        /\ now = 0

\* the first encode of a codec
FrameEncode(addr, msg) ==
    /\ nEnc = 0
    /\ CodecEncode(addr, msg)

FrameNext ==
    \/ \E addr \in AddressSamples, msg \in RequestSamples : FrameEncode(addr, msg)
    \/ CodecDecode
    \/ TransportRead(FrameLen)

FrameSpec == FrameInit /\ [][FrameNext]_vars

---------------------------------------------------------------------------
(* Pipeline specification: the polling task, the client dispatch task that *)
(* owns the transport, the device and the clock                            *)

\* the dispatch task ends with an error: every call still owed a response
\* fails, and the task waiting on it is woken
FailCalls(s, e) ==
    IF s.nDelivered < Len(s.callLog)
    THEN [s EXCEPT !.reqQueue = <<>>, !.inFlight = 0,
                   !.nDelivered = Len(s.callLog), !.callResult = Err(e)]
    ELSE [s EXCEPT !.reqQueue = <<>>, !.inFlight = 0]

\* one poll of the stream by its consumer (the map/fold chain run by core.run)
PollStream ==
    /\ status = "running" /\ notified /\ ~uploading
    /\ LET r == TimeoutPoll(task, now, transport = "alive")
       IN /\ Len(r.s.callLog) <= 2 * MaxTicks
          /\ task' = r.s
          /\ emitted' = IF r.res.kind = "Ready"
                        THEN Append(emitted, [energy |-> r.res.item[1],
                                              voltage |-> r.res.item[2]])
                        ELSE emitted
          /\ lastEmitAt' = IF r.res.kind = "Ready" THEN now ELSE lastEmitAt
          /\ lastGap' = IF r.res.kind = "Ready" THEN now - lastEmitAt ELSE lastGap
          /\ uploading' = (r.res.kind = "Ready")
          /\ status' = IF r.res.kind = "Err" THEN "failed" ELSE status
          /\ failure' = IF r.res.kind = "Err" THEN r.res.err ELSE failure
    /\ notified' = FALSE
    /\ step' = [op |-> "poll",
                res |-> TimeoutPoll(task, now, transport = "alive").res.kind,
                skips |-> task.delay_skips,
                ready |-> ItemReady(task),
                sleepReady |-> SleepReady(task.sleep, now),
                sleepSet |-> task.sleep.set,
                owed |-> task.nDelivered < Len(task.callLog),
                callFailed |-> CallFailed(task),
                calls |-> Len(TimeoutPoll(task, now, transport = "alive").s.callLog)
                          - Len(task.callLog)]
    /\ UNCHANGED <<codecVarsButOp, transport, now>>

\* the fold closure has dealt with the item and polls the stream again
UploadDone ==
    /\ status = "running" /\ uploading
    /\ uploading' = FALSE
    /\ notified' = TRUE
    /\ step' = [op |-> "upload"]
    /\ UNCHANGED <<codecVarsButOp, transport, task, emitted, lastEmitAt, lastGap,
                   status, failure, now>>

\* the upload fails: the error leaves the fold and core.run(..).unwrap()
\* ends the program
UploadFailed ==
    /\ status = "running" /\ uploading
    /\ uploading' = FALSE
    /\ status' = "failed"
    /\ failure' = "Upload"
    /\ step' = [op |-> "uploadfailed"]
    /\ UNCHANGED <<codecVarsButOp, transport, task, emitted, lastEmitAt, lastGap,
                   notified, now>>

\* the dispatch task takes the next request: start_send encodes it into the
\* write buffer; the bytes go out later, in Flush
TransportSend ==
    /\ Connected
    /\ task.reqQueue # <<>>
    /\ LET m == Head(task.reqQueue)
           e == encode(last_request, m.addr, m.req, wr)
       IN /\ last_request' = e.last_request
          /\ wr' = e.buf
    /\ task' = [task EXCEPT !.reqQueue = Tail(@), !.inFlight = @ + 1]
    /\ nEnc' = nEnc + 1
    /\ step' = LET m == Head(task.reqQueue)
                   e == encode(last_request, m.addr, m.req, wr)
               IN [op |-> "encode", pending |-> last_request,
                   addr |-> m.addr, msg |-> m.req, result |-> e.result,
                   out |-> Drop(e.buf, Len(wr))]
    /\ UNCHANGED <<rd, wire, wireOut, fed, nSpurious, nFrames, nDecOk,
                   transport, emitted, lastEmitAt, lastGap, status, failure,
                   notified, uploading, now>>

\* the dispatch task polls the transport: Framed::poll reads the bytes that
\* have arrived and calls decode; a frame completes the oldest call in
\* flight, an error ends the dispatch task
TransportReceive ==
    /\ Connected
    /\ wire # <<>> \/ Len(rd) >= FrameLen
    /\ LET d == decode(last_request, rd \o wire)
       IN /\ DecodeEffect(d, rd \o wire)
          /\ CASE d.result = "NotYet" ->
                    UNCHANGED <<transport, task, notified>>
               [] d.result = "Ok" /\ task.inFlight > 0 ->
                    /\ task' = [task EXCEPT !.inFlight = @ - 1,
                                            !.nDelivered = @ + 1,
                                            !.callResult = Ready(d.resp),
                                            !.respLog = Append(@, d.resp)]
                    /\ notified' = TRUE
                    /\ UNCHANGED transport
               [] OTHER ->
                    /\ transport' = "failed"
                    /\ task' = FailCalls(task, IF d.result = "Ok"
                                               THEN "Mismatch" ELSE d.result)
                    /\ notified' = (notified \/ task.nDelivered < Len(task.callLog))
    /\ wire' = <<>>
    /\ UNCHANGED <<wr, wireOut, nSpurious, nFrames, nEnc, emitted, lastEmitAt,
                   lastGap, status, failure, uploading, now>>

\* a read or write of the socket fails
TransportIoError ==
    /\ Connected
    /\ transport' = "failed"
    /\ task' = FailCalls(task, "Io")
    /\ notified' = (notified \/ task.nDelivered < Len(task.callLog))
    /\ step' = [op |-> "ioerror"]
    /\ UNCHANGED <<codecVarsButOp, emitted, lastEmitAt, lastGap, status, failure,
                   uploading, now>>

\* a registered Sleep whose deadline is reached at time t wakes the task
Fires(sl, t) == sl.set /\ sl.registered /\ t >= sl.deadline

\* time passes; a woken task is polled before the clock moves on
Tick ==
    /\ status = "running"
    /\ now < MaxTime
    /\ uploading \/ ~notified
    /\ now' = now + 1
    /\ notified' = (notified \/ Fires(task.sleep, now + 1)
                             \/ Fires(task.tsleep, now + 1))
    /\ task' = [task EXCEPT
                  !.sleep.registered = @ /\ ~Fires(task.sleep, now + 1),
                  !.tsleep.registered = @ /\ ~Fires(task.tsleep, now + 1)]
    /\ step' = [op |-> "tick"]
    /\ UNCHANGED <<codecVarsButOp, transport, emitted, lastEmitAt, lastGap,
                   status, failure, uploading>>

Next ==
    \/ PollStream
    \/ UploadDone
    \/ UploadFailed
    \/ TransportSend
    \/ Flush
    \/ \E ok \in BOOLEAN : DeviceRespond(MakeFrame(ReplyPayload(nFrames), ok))
    \/ \E ok \in BOOLEAN : DeviceSpurious(MakeFrame(ReplyPayload(nFrames), ok))
    \/ TransportReceive
    \/ TransportIoError
    \/ Tick

Spec == Init /\ [][Next]_vars

\* the pipeline with the stream built by RateLimitedStream::new(.., skips)
\* for any skip count up to the one main passes
SkipInit ==
    \E skips \in 0 .. DelaySkips :
        /\ last_request = bind_transport
        /\ rd = <<>>
        /\ wr = <<>>
        /\ wire = <<>>
        /\ wireOut = <<>>
        /\ step = [op |-> "init"]
        /\ fed = <<>>
        /\ nSpurious = 0
        /\ nFrames = 0
        /\ nEnc = 0
        /\ nDecOk = 0
        /\ transport = "alive"
        /\ task = [InitTask EXCEPT !.delay_skips = skips]
        /\ emitted = <<>>
        /\ lastEmitAt = 0
        /\ lastGap = 0
        /\ status = "running"
        /\ failure = "none"
        /\ notified = TRUE
        /\ uploading = FALSE
        /\ now = 0

SkipSpec == SkipInit /\ [][Next]_vars


---------------------------------------------------------------------------
(* Properties of the codec, checked under CodecSpec *)

\* the last step was an encode call
Encoded == step.op = "encode"

\* the last step was a decode call
Decoded == step.op = "decode"

\* the last step was a decode call on a buffer holding a whole frame
DecodedFrame == step.op = "decode" /\ Len(step.input) >= FrameLen

\* the two CRC bytes of the frame at the head of the decode's input are the
\* CRC-16/CCITT-FALSE of its six payload bytes, low byte first
FrameIntact ==
    LET crc == calculate(SubSeq(step.input, 1, PayloadLen))
    IN /\ step.input[PayloadLen + 1] = crc % 256
       /\ step.input[FrameLen] = crc \div 256

\* C1: the number of successful decodes never exceeds the number of encode
\* calls; a CRC-valid frame decoded while a request is pending succeeds with
\* a Response, a successful decode leaves the pending slot empty, and a
\* CRC-valid frame decoded while the slot is empty does not succeed
C1_DecodeAtMostOncePerEncode ==
    /\ nDecOk <= nEnc
    /\ last_request # None => nDecOk < nEnc
    /\ DecodedFrame /\ FrameIntact /\ step.pending # None
           => /\ step.result = "Ok"
              /\ step.resp # None
              /\ step.resp.variant = step.pending.variant
    /\ Decoded /\ step.result = "Ok" => step.pending # None /\ last_request = None
    /\ DecodedFrame /\ FrameIntact /\ step.pending = None
           => step.result = "UnexpectedResponse"

\* one encode, one successful decode, and then a second valid frame refused
C1_Witness ==
    /\ nEnc = 1
    /\ nDecOk = 1
    /\ DecodedFrame /\ FrameIntact
    /\ step.result = "UnexpectedResponse"

\* C2: a CRC-valid frame decoded while no request is pending fails with
\* UnexpectedResponse, yields no Response, and leaves the slot empty
C2_NoPendingIsUnexpected ==
    DecodedFrame /\ FrameIntact /\ step.pending = None
        => /\ step.result = "UnexpectedResponse"
           /\ step.resp = None
           /\ last_request = None
           /\ rd = Drop(step.input, FrameLen)

\* a valid frame decoded by a codec that has never encoded anything
C2_Witness ==
    /\ nEnc = 0
    /\ DecodedFrame /\ FrameIntact
    /\ step.pending = None
    /\ step.result = "UnexpectedResponse"

\* C9: decode on fewer than 8 buffered bytes returns Ok(None) and changes
\* neither the buffer nor the pending request; when a frame is at last
\* decoded, it is the 8 bytes the device sent as one frame, however they
\* were split on arrival
C9_PartialFrameWaits ==
    /\ Decoded /\ Len(step.input) < FrameLen
           => /\ step.result = "NotYet"
              /\ step.resp = None
              /\ rd = step.input
              /\ last_request = step.pending
    /\ Decoded /\ step.result # "NotYet"
           => /\ step.packet = step.sent
              /\ step.result = decode(step.pending, step.sent).result
              /\ step.resp = decode(step.pending, step.sent).resp

\* decode called with six bytes buffered, after two reads of three bytes,
\* while a request is pending
C9_Witness ==
    /\ Decoded
    /\ Len(step.input) = 6
    /\ step.pending # None
    /\ step.result = "NotYet"

\* C10: a frame whose last two bytes differ from the CRC of its first six
\* fails with CrcMismatch, yields no Response, and its 8 bytes are dropped
\* from the buffer
C10_BadCrcIsRejected ==
    DecodedFrame /\ ~FrameIntact
        => /\ step.result = "CrcMismatch"
           /\ step.resp = None
           /\ rd = Drop(step.input, FrameLen)

\* a damaged frame decoded while a request is pending and more bytes follow
C10_Witness ==
    /\ DecodedFrame /\ ~FrameIntact
    /\ step.pending # None
    /\ step.result = "CrcMismatch"
    /\ Len(step.input) > FrameLen

\* C16: encode never fails and puts the request it encodes in the pending
\* slot even when another request is pending there; the next CRC-valid frame
\* is interpreted by the request in the slot, the one encoded last, one
\* decode empties the slot and a further frame is refused
C16_EncodeOverwrites ==
    /\ Encoded => step.result = "Ok" /\ last_request = step.msg
    /\ DecodedFrame /\ FrameIntact /\ step.pending # None
           => /\ step.result = "Ok"
              /\ step.resp = Parse(step.pending, SubSeq(step.input, 1, PayloadLen))
              /\ last_request = None
    /\ DecodedFrame /\ FrameIntact /\ step.pending = None
           => step.result = "UnexpectedResponse" /\ last_request = None
    /\ nEnc = 0 => last_request = None

\* State then Measure were encoded with no decode in between (both frames
\* are still in the write buffer) and the one response is a Measure
C16_Witness ==
    /\ Decoded /\ step.result = "Ok"
    /\ nEnc = 2 /\ nDecOk = 1
    /\ Len(wr) = 2 * RequestLen
    /\ wr[2] = 50 /\ wr[RequestLen + 2] = 59
    /\ step.pending.variant = "Measure"
    /\ step.resp.variant = "Measure"
    /\ last_request = None

\* C18: decode on a buffer of n >= 8 bytes removes exactly the first 8 and
\* leaves the other n-8 in order, whether it returns a Response, CrcMismatch
\* or UnexpectedResponse
C18_DecodeTakesOneFrame ==
    DecodedFrame
        => /\ step.result \in {"Ok", "CrcMismatch", "UnexpectedResponse"}
           /\ step.packet = SubSeq(step.input, 1, 8)
           /\ Len(rd) = Len(step.input) - 8
           /\ \A i \in 1..Len(rd) : rd[i] = step.input[i + 8]

\* two frames were buffered and a successful decode left the second one
C18_Witness ==
    /\ DecodedFrame
    /\ Len(step.input) = 16
    /\ step.result = "Ok"
    /\ rd = SubSeq(step.input, 9, 16)

\* C19: a decode that fails with CrcMismatch leaves the pending request as
\* it was, and a CRC-valid frame decoded next succeeds against that request
C19_CrcMismatchKeepsPending ==
    /\ Decoded /\ step.result = "CrcMismatch" => last_request = step.pending
    /\ /\ DecodedFrame /\ FrameIntact
       /\ step.afterMismatch
       /\ nEnc > 0 /\ nDecOk = 0
       => /\ step.result = "Ok"
          /\ step.resp.variant = step.pending.variant

\* a damaged frame and then a valid one were decoded after the only encode:
\* the second decode succeeds against the request of that encode
C19_Witness ==
    /\ DecodedFrame /\ FrameIntact
    /\ step.afterMismatch
    /\ nEnc = 1
    /\ step.pending # None
    /\ step.result = "Ok"
    /\ step.resp.variant = step.pending.variant

---------------------------------------------------------------------------
(* Properties of the frame layout, checked under FrameSpec *)

\* C11: encode appends exactly 10 bytes: the address, the command code of
\* the variant, the measurement type or duration code (else 0), the global
\* flag of a Measure (else 0), four zero bytes, and the CRC-16 of those
\* eight bytes, low byte first; Measure{Input1Voltage, 1} to address 2 is
\* [2, 59, 23, 1, 0, 0, 0, 0, crc_lo, crc_hi]
C11_EncodeLayout ==
    Encoded =>
        LET out == step.out
            msg == step.msg
            crc == calculate(SubSeq(out, 1, 8))
        IN /\ Len(out) = 10
           /\ \A i \in 1..10 : out[i] \in 0..255
           /\ out[1] = step.addr
           /\ out[2] = CASE msg.variant = "State" -> 50
                          [] msg.variant = "PartNumber" -> 52
                          [] msg.variant = "Version" -> 58
                          [] msg.variant = "Measure" -> 59
                          [] msg.variant = "SerialNumber" -> 63
                          [] msg.variant = "ManufactureDate" -> 65
                          [] msg.variant = "CumulativeEnergy" -> 78
           /\ out[3] = IF msg.variant = "Measure" THEN msg.type_
                       ELSE IF msg.variant = "CumulativeEnergy" THEN msg.duration
                       ELSE 0
           /\ out[4] = IF msg.variant = "Measure" THEN msg.global ELSE 0
           /\ \A i \in 5..8 : out[i] = 0
           /\ out[9] = crc % 256
           /\ out[10] = crc \div 256
           /\ wr = step.out
           /\ step.addr = 2 /\ msg = [variant |-> "Measure", type_ |-> 23,
                                      global |-> 1]
                  => out = <<2, 59, 23, 1, 0, 0, 0, 0, 174, 212>>

\* Measure{Input1Voltage, 1} encoded for address 2
C11_Witness ==
    /\ Encoded
    /\ step.addr = 2
    /\ step.msg = [variant |-> "Measure", type_ |-> 23, global |-> 1]
    /\ step.out = <<2, 59, 23, 1, 0, 0, 0, 0, 174, 212>>

\* C12: with State pending, a CRC-valid frame is decoded with byte 0 as the
\* transmission state, byte 1 as the global state and bytes 2, 3, 4, 5 as
\* the inverter, dc1, dc2 and alarm states
C12_StateFieldMapping ==
    Decoded /\ step.result = "Ok" /\ step.pending.variant = "State"
        => /\ step.resp.variant = "State"
           /\ step.resp.global = step.packet[2]
           /\ step.resp.inverter = step.packet[3]
           /\ step.resp.dc1 = step.packet[4]
           /\ step.resp.dc2 = step.packet[5]
           /\ step.resp.alarm = step.packet[6]

\* C13: a CRC-valid frame whose transmission or global state byte is 255, a
\* value no state enum of the protocol holds, is not decoded into a
\* Response: decode fails with UnknownStateCode
C13_UnknownCodesRejected ==
    /\ DecodedFrame /\ FrameIntact
    /\ step.pending.variant \in {"Version", "Measure", "ManufactureDate",
                                 "CumulativeEnergy"}
    /\ step.input[1] = 255 \/ step.input[2] = 255
    => /\ step.result = "UnknownStateCode"
       /\ step.resp = None

\* the CRC bytes of an 8-byte frame are the CRC-16 of its six payload bytes,
\* low byte first
WellFormed(frame) ==
    LET crc == calculate(SubSeq(frame, 1, PayloadLen))
    IN /\ frame[PayloadLen + 1] = crc % 256
       /\ frame[FrameLen] = crc \div 256

\* the frame at the head of the decode's input is a well-formed frame with
\* one bit of its payload inverted
OnePayloadBitFlipped ==
    \E b \in 0 .. (PayloadLen * ByteBits - 1) :
        WellFormed(FlipFrameBit(SubSeq(step.input, 1, FrameLen), b))

\* C14: a response frame with one bit inverted in bytes 0-5 fails decode
\* with CrcMismatch, and a request frame from encode with any one bit of
\* bytes 0-7 inverted no longer matches its CRC in bytes 8-9
C14_SingleBitFlipDetected ==
    /\ DecodedFrame /\ OnePayloadBitFlipped
           => step.result = "CrcMismatch" /\ step.resp = None
    /\ Encoded
           => \A b \in 0 .. (8 * ByteBits - 1) :
                  LET crc == calculate(FlipFrameBit(SubSeq(step.out, 1, 8), b))
                  IN <<step.out[9], step.out[10]>> # <<crc % 256, crc \div 256>>

\* a frame that left the device well formed and lost one payload bit is
\* refused while a request is pending
C14_Witness ==
    /\ DecodedFrame /\ OnePayloadBitFlipped
    /\ step.pending # None
    /\ step.result = "CrcMismatch"

\* C17: every Response has the variant of the request that was pending when
\* it was decoded, and a Measure or CumulativeEnergy response carries that
\* request's type_ or duration, whatever the bytes of the frame
C17_ResponseFollowsRequest ==
    Decoded /\ step.result = "Ok"
        => /\ step.pending # None
           /\ step.resp.variant = step.pending.variant
           /\ step.pending.variant = "Measure"
                  => step.resp.type_ = step.pending.type_
           /\ step.pending.variant = "CumulativeEnergy"
                  => step.resp.duration = step.pending.duration

\* a frame whose first bytes are 255 decoded against a pending
\* Measure{GridVoltagePhaseT}
C17_Witness ==
    /\ Decoded /\ step.result = "Ok"
    /\ step.pending = [variant |-> "Measure", type_ |-> 63, global |-> 255]
    /\ step.resp.variant = "Measure"
    /\ step.resp.type_ = 63
    /\ step.packet[1] = 255

---------------------------------------------------------------------------
(* Properties of the polling pipeline, checked under Spec *)

\* the last step was a poll of the stream
Polled == step.op = "poll"

\* a call has been made whose future has not completed
Owed == task.nDelivered < Len(task.callLog)

\* C3: at most one request is outstanding at any time, a request is issued
\* only when every earlier call has completed, and encode never finds a
\* request still pending in the slot
C3_RequestsSerialized ==
    /\ Len(task.reqQueue) + task.inFlight <= 1
    /\ Len(task.callLog) <= task.nDelivered + 1
    /\ step.op = "encode" => step.pending = None
    /\ task.reqQueue # <<>> => last_request = None

\* the third request is outstanding after two responses were delivered
C3_Witness ==
    /\ Len(task.callLog) = 3
    /\ task.nDelivered = 2
    /\ task.inFlight = 1
    /\ last_request # None

\* C4: the calls of the stream alternate CumulativeEnergy(Daily) and
\* Measure{Input1Voltage, global}, all to the configured address; the
\* voltage call is made only once the energy response is held, and every
\* emitted pair accounts for two successfully decoded responses
C4_EnergyThenVoltage ==
    /\ \A i \in 1..Len(task.callLog) :
           task.callLog[i] =
               [addr |-> aurora_address,
                req |-> IF i % 2 = 1
                        THEN [variant |-> "CumulativeEnergy", duration |-> Daily]
                        ELSE [variant |-> "Measure", type_ |-> Input1Voltage,
                              global |-> 1]]
    /\ task.phase = "RequestingVoltage"
           => /\ task.energy.variant = "CumulativeEnergy"
              /\ Len(task.callLog) % 2 = 0
              /\ task.nDelivered >= Len(task.callLog) - 1
    /\ task.phase = "RequestingEnergy" => Len(task.callLog) % 2 = 1
    /\ 2 * Len(emitted) <= nDecOk
    /\ 2 * Len(emitted) <= Len(task.callLog)
    /\ Polled /\ step.res = "Ready" => step.ready

\* the voltage request of the second tick is outstanding after one pair
\* was emitted
C4_Witness ==
    /\ Len(emitted) = 1
    /\ Len(task.callLog) = 4
    /\ task.phase = "RequestingVoltage"
    /\ Owed

\* C5: with a skip count of 2 and interval poll_duration, the third and
\* every later item follows the item before it by at least poll_duration
C5_ThirdAndLaterSpaced ==
    Len(emitted) >= 3 => lastGap >= poll_duration

\* C6: while skips remain, a ready item is emitted whatever the state of the
\* sleep and the count goes down by exactly one; the count never goes below
\* zero, and exactly the first DelaySkips items are let through this way
C6_SkipsCountDown ==
    /\ task.delay_skips \in 0..DelaySkips
    /\ task.delay_skips =
           DelaySkips - (IF Len(emitted) < DelaySkips THEN Len(emitted)
                         ELSE DelaySkips)
    /\ Polled /\ step.skips > 0 /\ step.ready
           => step.res = "Ready" /\ task.delay_skips = step.skips - 1
    /\ Polled /\ step.skips = 0 /\ step.res = "Ready" => step.sleepReady
    /\ Polled /\ step.res # "Ready" => task.delay_skips = step.skips

\* the second item is emitted on the last skip while the sleep made by the
\* first poll has not elapsed
C6_Witness ==
    /\ Polled
    /\ step.skips = 1
    /\ step.res = "Ready"
    /\ task.sleep.set /\ ~step.sleepReady
    /\ task.delay_skips = 0
    /\ Len(emitted) = 2

\* C7: the stream is never still running with a call unanswered later than
\* timeout_duration after the last request was sent, and a Timeout is the
\* failure of a stream whose last call went unanswered
C7_TimeoutBoundsTheWait ==
    /\ status = "running" /\ Owed => now <= task.lastSent + timeout_duration
    /\ failure = "Timeout"
           => /\ status = "failed"
              /\ Owed
              /\ now <= task.lastSent + timeout_duration

\* the device never answered the first request and the stream failed with
\* Timeout at the deadline, having sent that one request only
C7_Witness ==
    /\ failure = "Timeout"
    /\ nFrames = 0
    /\ now = timeout_duration
    /\ Len(task.callLog) = 1
    /\ nEnc = 1

\* C8: a poll that finds its call failed ends the stream with that failure,
\* makes no further call and emits nothing; once the stream has failed the
\* failing poll is the last thing that happened (the program can otherwise
\* end only by a failed upload), and a dead transport holds no request to
\* send
C8_FailureEndsTheStream ==
    /\ Polled /\ step.callFailed
           => /\ step.res = "Err"
              /\ step.calls = 0
              /\ status = "failed"
    /\ Polled /\ step.res = "Err" => status = "failed" /\ ~uploading
    /\ status = "failed" /\ failure # "Upload"
           => /\ Polled /\ step.res = "Err"
              /\ failure \in {"Io", "CrcMismatch", "UnexpectedResponse",
                              "Timeout"}
    /\ failure = "Upload" => status = "failed" /\ step.op = "uploadfailed"
    /\ status = "running" => failure = "none"
    /\ transport = "failed" => task.reqQueue = <<>> /\ task.inFlight = 0

\* a damaged response ends the stream after one pair had been emitted
C8_Witness ==
    /\ status = "failed"
    /\ failure = "CrcMismatch"
    /\ Len(emitted) = 1
    /\ step.callFailed

\* C15: the stream yields one pair for every tick whose two calls returned
\* a response, made of those two responses, in tick order: a completed tick
\* is polled and the poll yields its pair, and no pair is yielded twice or
\* out of order
C15_OnePairPerTick ==
    /\ \A i \in 1..Len(task.respLog) :
           task.respLog[i].variant =
               IF i % 2 = 1 THEN "CumulativeEnergy" ELSE "Measure"
    /\ Len(task.respLog) \div 2
           = Len(emitted) + (IF ItemReady(task) THEN 1 ELSE 0)
    /\ \A k \in 1..Len(emitted) :
           emitted[k] = [energy |-> task.respLog[2 * k - 1].value,
                         voltage |-> task.respLog[2 * k].val]
    /\ \A j, k \in 1..Len(emitted) :
           j < k => emitted[j].energy < emitted[k].energy
    /\ ItemReady(task) => notified /\ ~uploading /\ status = "running"
    /\ Polled /\ step.ready => step.res = "Ready"

\* two ticks have completed and two pairs were yielded, the later reading
\* after the earlier
C15_Witness ==
    /\ Len(emitted) = 2
    /\ Len(task.respLog) = 4
    /\ emitted[1].energy < emitted[2].energy
    /\ emitted[2].energy = task.respLog[3].value

---------------------------------------------------------------------------
(* Property of RateLimitedStream for any skip count, checked under SkipSpec *)

\* C20: a poll of the RateLimitedStream that returns NotReady has polled the
\* inner stream (skips remained, or the sleep had elapsed) or has polled a
\* sleep that has not elapsed, so a wake-up is registered
C20_NotReadyHasWakeUp ==
    Polled /\ step.res = "NotReady" => step.skips > 0 \/ step.sleepSet

=============================================================================
